---- MODULE Spec2Model ----
\* Model of Feel::Event::SignalHandler (the named-channel registry) and of
\* Feel::Observer::JournalManagerBase (the journal aggregator built on it).
EXTENDS Integers, Sequences, FiniteSets, TLC

\* ---------------------------------------------------------------------------
\* Bounds of the model
\* ---------------------------------------------------------------------------

\* Largest number of connections held by all signals of the two maps together.
MaxSubs == 2

\* Latest time the clock reaches.
MaxTime == 2

\* ---------------------------------------------------------------------------
\* Universe of inputs
\* ---------------------------------------------------------------------------

\* Signal names passed to the registry operations; "journalManager" is the
\* name the journal manager registers.
JournalName == "journalManager"
Names == {JournalName, "sig", "other"}

\* Template argument lists a signal is created or requested with.
\* SigJournal is < notify_type (), JournalMerge >.
SigJournal == "ptree()JournalMerge"
SigVoid == "void()"
Sigs == {SigJournal, SigVoid}

\* Slot names asked of the slot handler; "nope" is registered nowhere.
SlotNames == {"a", "b", "A", "nope"}

\* Flags of signalStaticConnect / signalStaticDisconnect.
DEFAULT == "DEFAULT"
SIG_STATIC == "SIG_STATIC"
SLOT_STATIC == "SLOT_STATIC"
SigConnectFlags == {DEFAULT, SLOT_STATIC}

\* ---------------------------------------------------------------------------
\* boost::any and std::map< std::string, boost::any >
\* ---------------------------------------------------------------------------

\* A default-constructed boost::any: it holds nothing.
EmptyAny == [sig |-> "empty", subs |-> <<>>]

\* A boost::any holding a shared pointer to a signal of template arguments
\* sig; subs is the signal's slot list, in calling order.
SigAny(sig, subs) == [sig |-> sig, subs |-> subs]

\* std::map::operator[]: a missing key is inserted with a default value.
MapIndex(m, name) ==
    IF name \in DOMAIN m THEN m ELSE m @@ (name :> EmptyAny)

\* Mutant of MapInsert: the value is assigned, as by map[name] = v.
MapAssign(m, name, v) ==
    [k \in DOMAIN m \cup {name} |-> IF k = name THEN v ELSE m[k]]

\* std::map::insert: an existing key keeps its value.
MapInsert(m, name, v) ==
    IF name \in DOMAIN m THEN m ELSE m @@ (name :> v)

\* std::map::erase by key.
MapErase(m, name) == [k \in DOMAIN m \ {name} |-> m[k]]

\* boost::any_cast< const shared_ptr< signal<sig> >& >: succeeds exactly when
\* the any holds that type, and throws boost::bad_any_cast otherwise.
AnyCastOk(a, sig) == a.sig = sig

OK == "ok"
bad_any_cast == "bad_any_cast"
NameNotFound == "NameNotFound"

\* ---------------------------------------------------------------------------
\* The slot handler (feel/feelevent/slothandler.hpp), as the spec describes it
\* ---------------------------------------------------------------------------

\* Slots the handler resolves with slot<>() and with slotStatic<>().
M_slots == {"a", "b"}
S_slots == {"A"}

\* slothdlr.slot<SlotType>( slotname ): the callable, or NameNotFound.
SlotResolves(slotname, flags) ==
    IF flags = SLOT_STATIC THEN slotname \in S_slots ELSE slotname \in M_slots

Callables == M_slots \cup S_slots

\* ---------------------------------------------------------------------------
\* boost::property_tree::ptree
\* ---------------------------------------------------------------------------

\* A ptree is its set of nodes: a function from the path of each node (the
\* keys from the root down) to the node's data, a string. The nodes between
\* the root and a node are nodes too; put creates them with empty data.
EmptyTree == [p \in {} |-> ""]

Prefixes(path) == {SubSeq(path, 1, i) : i \in 1..Len(path)}

\* ptree::empty(): the root has no child.
ptEmpty(t) == DOMAIN t = {}

\* ptree::put( path, value ): the node is created, with the nodes above it,
\* or its data replaced.
ptPut(t, path, value) ==
    [p \in DOMAIN t \cup Prefixes(path) |->
        IF p = path THEN value ELSE IF p \in DOMAIN t THEN t[p] ELSE ""]

\* The nodes of a tree that have no child.
Leaves(t) ==
    {p \in DOMAIN t : ~\E q \in DOMAIN t : Len(q) > Len(p) /\ SubSeq(q, 1, Len(p)) = p}

\* ---------------------------------------------------------------------------
\* feel/feelobserver/functors/journalmerge.hpp, as the spec describes it
\* ---------------------------------------------------------------------------

RECURSIVE PutAll(_, _, _)
PutAll(to, from, ps) ==
    IF ps = {} THEN to
    ELSE LET p == CHOOSE x \in ps : TRUE
         IN PutAll(ptPut(to, p, from[p]), from, ps \ {p})

\* Mutant of ptMerge: a leaf of from is added beside the data to holds at the
\* same path, as by ptree::add.
RECURSIVE AddAll(_, _, _)
AddAll(to, from, ps) ==
    IF ps = {} THEN to
    ELSE LET p == CHOOSE x \in ps : TRUE
             v == IF p \in DOMAIN to THEN to[p] \o "," \o from[p] ELSE from[p]
         IN AddAll(ptPut(to, p, v), from, ps \ {p})

ptMergeAdd(to, from) == AddAll(to, from, Leaves(from))

\* ptMerge( to, from ): nested keys are united, and a leaf of from replaces
\* the data to holds at the same path.
ptMerge(to, from) == PutAll(to, from, Leaves(from))

\* JournalMerge, the combiner of the signal: the trees the slots return are
\* merged one after the other, in calling order.
RECURSIVE JournalMerge(_)
JournalMerge(results) ==
    IF results = <<>> THEN EmptyTree
    ELSE ptMerge(JournalMerge(SubSeq(results, 1, Len(results) - 1)), results[Len(results)])

\* ---------------------------------------------------------------------------
\* The journal watchers: what their slots return
\* ---------------------------------------------------------------------------

\* The trees a slot of a watcher can return.
Fragment(f) ==
    CASE f = "mesh120" -> ptPut(EmptyTree, <<"mesh", "nelements">>, "120")
      [] f = "mesh130" -> ptPut(EmptyTree, <<"mesh", "nelements">>, "130")
      [] f = "solver" -> ptPut(EmptyTree, <<"solver", "iterations">>, "42")
      [] f = "stamp" -> ptPut(EmptyTree, <<"database", "time", "time_t">>, "0")
      [] OTHER -> EmptyTree

\* What each slot can return, depending on the state of its watcher.
SlotFragments(slo) ==
    CASE slo = "a" -> {"mesh120", "mesh130"}
      [] slo = "b" -> {"solver", "mesh130"}
      [] OTHER -> {"none", "stamp"}

\* ---------------------------------------------------------------------------
\* State
\* ---------------------------------------------------------------------------

VARIABLES
    M_sigs,     \* the signal map of one SignalHandler object
    S_sigs,     \* the static signal map
    connLog,    \* history: per map and name, the slots connected and not disconnected, oldest first
    ret,        \* the last operation and what it returned or threw
    M_journal_ptree,  \* the global property tree of the journal
    now,        \* the clock std::time reads
    firstTime,  \* history: the time the first journal manager was constructed at, 0 before
    watcherFrag, \* what the slot of each watcher returns when called
    M_journal_filename,  \* the name of the JSON file, without its extension
    M_journal_db_config, \* the MongoDB configuration
    journal_database,    \* the option "journal.database" of Env::vm()
    files,      \* the file system: the document each existing file holds
    saved,      \* what the last journalSave did to the file system and to the database
    pc,         \* per thread, the static member function it is in and how far
    loc         \* per thread, the local variables of that function

svars == <<M_journal_filename, M_journal_db_config, journal_database, files, saved>>
tvars == <<pc, loc>>
vars == <<M_sigs, S_sigs, connLog, ret, M_journal_ptree, now, firstTime, watcherFrag, svars,
          tvars>>
jvars == <<M_journal_ptree, now, firstTime, watcherFrag, svars, tvars>>

EmptyMap == [k \in {} |-> EmptyAny]

\* again: the operation before was this one too.
Ret(op, reg, res, calls) ==
    [op |-> op, reg |-> reg, res |-> res, calls |-> calls, again |-> FALSE]

RECURSIVE SumLen(_, _)
SumLen(m, ks) ==
    IF ks = {} THEN 0
    ELSE LET k == CHOOSE x \in ks : TRUE
         IN Len(m[k].subs) + SumLen(m, ks \ {k})

\* Connections held by the two maps together.
TotalSubs == SumLen(M_sigs, DOMAIN M_sigs) + SumLen(S_sigs, DOMAIN S_sigs)

\* The MongoDB configuration before any setter ran: each field holds the
\* default its setter documents.
DefaultConfig ==
    [name |-> "feelpp", host |-> "localhost", user |-> "", password |-> "",
     port |-> "27017", authsrc |-> "admin", collection |-> "journal"]

NoFiles == [f \in {} |-> EmptyTree]

\* wrote: the files written; connected: a MongoDB client was built;
\* inserted: the documents inserted, with their database and collection.
NoSave == [wrote |-> {}, connected |-> FALSE, inserted |-> <<>>]

\* The threads that call the static member functions.
Threads == {"t1", "t2"}

\* The local variables of a thread that is in no function: map and tree are
\* the static map and the global tree as the function found them, pt_merged
\* what the signal returned, slotname the argument.
NoLocal == [map |-> EmptyMap, tree |-> EmptyTree, pt_merged |-> EmptyTree, slotname |-> ""]

\* The state of the process before its first operation, the option
\* "journal.database" being enable.
InitOption(enable) ==
    /\ M_sigs = EmptyMap
    /\ S_sigs = EmptyMap
    /\ connLog = [r \in {"M", "S"} |-> [n \in Names |-> <<>>]]
    /\ ret = Ret("init", "-", OK, <<>>)
    /\ M_journal_ptree = EmptyTree
    /\ now = 1
    /\ firstTime = 0
    /\ watcherFrag = [c \in Callables |->
                          CASE c = "a" -> "mesh120" [] c = "b" -> "solver" [] OTHER -> "none"]
    /\ M_journal_filename = "journal"
    /\ M_journal_db_config = DefaultConfig
    /\ journal_database = enable
    /\ files = NoFiles
    /\ saved = NoSave
    /\ pc = [th \in Threads |-> "idle"]
    /\ loc = [th \in Threads |-> NoLocal]

\* The database is off unless the option is given.
Init == InitOption(FALSE)

\* The process was started with or without the option.
InitSave == \E enable \in BOOLEAN : InitOption(enable)


\* ---------------------------------------------------------------------------
\* boost::signals2::signal
\* ---------------------------------------------------------------------------

\* Mutant of SlotConnect: the slot is added at the front.
SlotConnectFront(subs, slo) == <<slo>> \o subs

\* sig->connect( slo ): the slot is added at the back of the slot list.
SlotConnect(subs, slo) == Append(subs, slo)

\* sig->disconnect( slo ): every connection of that slot is removed.
SlotDisconnect(subs, slo) == SelectSeq(subs, LAMBDA x : x # slo)

\* Mutant of SlotCalls: the slots are called back to front.
SlotCallsReversed(subs) == [i \in 1..Len(subs) |-> subs[Len(subs) + 1 - i]]

\* (*sig)(): the slots are called one after the other, front to back.
SlotCalls(subs) == subs

\* ---------------------------------------------------------------------------
\* SignalHandler: what each member function does to a signal map
\* ---------------------------------------------------------------------------

Outcome(map, res, calls) == [map |-> map, res |-> res, calls |-> calls]

\* Mutant of signalStore: the new signal replaces the stored one.
signalStoreFresh(m, name, sig) ==
    Outcome(MapAssign(m, name, SigAny(sig, <<>>)), OK, <<>>)

\* signalStore / signalStaticStore: insert, then any_cast of map[name].
signalStore(m, name, sig) ==
    LET m1 == MapInsert(m, name, SigAny(sig, <<>>))
        m2 == MapIndex(m1, name)
    IN  Outcome(m2, IF AnyCastOk(m2[name], sig) THEN OK ELSE bad_any_cast, <<>>)

\* Mutant of signalErase: the map is cleared.
signalEraseAll(m, name) == Outcome([k \in {} |-> EmptyAny], OK, <<>>)

\* signalDelete / signalStaticDelete.
signalErase(m, name) == Outcome(MapErase(m, name), OK, <<>>)

\* signal( name ), the untyped getter: returns M_sigs[name].
signalAny(m, name) == Outcome(MapIndex(m, name), OK, <<>>)

\* signal<...>( name ) / signalStatic<...>( name ): any_cast of map[name].
signalGet(m, name, sig) ==
    LET m1 == MapIndex(m, name)
    IN  Outcome(m1, IF AnyCastOk(m1[name], sig) THEN OK ELSE bad_any_cast, <<>>)

\* Mutant of signalConnectTo: the slot is connected before it is looked up.
signalConnectUnresolved(m, name, sig, slotname, flags) ==
    LET got == signalGet(m, name, sig)
        connected == [got.map EXCEPT ![name].subs = SlotConnect(@, slotname)]
    IN  IF got.res # OK THEN got
        ELSE IF ~SlotResolves(slotname, flags) THEN Outcome(connected, NameNotFound, <<>>)
        ELSE Outcome(connected, OK, <<>>)

\* signalConnect, and signalStaticConnect with its flags: the signal is looked
\* up, then the slot, then the slot is connected.
signalConnectTo(m, name, sig, slotname, flags) ==
    LET got == signalGet(m, name, sig)
    IN  IF got.res # OK THEN got
        ELSE IF ~SlotResolves(slotname, flags) THEN Outcome(got.map, NameNotFound, <<>>)
        ELSE Outcome([got.map EXCEPT ![name].subs = SlotConnect(@, slotname)], OK, <<>>)

\* signalDisconnect: the signal is looked up, then the slot, then the slot is
\* disconnected.
signalDisconnectFrom(m, name, sig, slotname) ==
    LET got == signalGet(m, name, sig)
    IN  IF got.res # OK THEN got
        ELSE IF ~SlotResolves(slotname, DEFAULT) THEN Outcome(got.map, NameNotFound, <<>>)
        ELSE Outcome([got.map EXCEPT ![name].subs = SlotDisconnect(@, slotname)], OK, <<>>)

\* Mutant of signalStaticDisconnectFrom: the signal is erased from the map.
signalStaticDisconnectErase(m, name, sig, slotname, flags) ==
    LET got == signalGet(m, name, sig)
    IN  IF got.res # OK THEN got
        ELSE IF ~SlotResolves(slotname, flags) THEN Outcome(got.map, NameNotFound, <<>>)
        ELSE Outcome(MapErase(got.map, name), OK, <<>>)

\* signalStaticDisconnect: the signal is looked up, then the slot; the call of
\* sig->disconnect is commented out in both branches.
signalStaticDisconnectFrom(m, name, sig, slotname, flags) ==
    LET got == signalGet(m, name, sig)
    IN  IF got.res # OK THEN got
        ELSE IF ~SlotResolves(slotname, flags) THEN Outcome(got.map, NameNotFound, <<>>)
        ELSE Outcome(got.map, OK, <<>>)

\* Mutant of signalCall: a signal without slots throws, as the combiner
\* boost::signals2::last_value does.
signalCallNoSlots(m, name, sig) ==
    LET got == signalGet(m, name, sig)
    IN  IF got.res # OK THEN got
        ELSE IF got.map[name].subs = <<>> THEN Outcome(got.map, "no_slots_error", <<>>)
        ELSE Outcome(got.map, OK, SlotCalls(got.map[name].subs))

\* signalPull / signalStaticPull: the signal is looked up and called.
signalCall(m, name, sig) ==
    LET got == signalGet(m, name, sig)
    IN  IF got.res # OK THEN got
        ELSE Outcome(got.map, OK, SlotCalls(got.map[name].subs))

\* signals() / signalsStatic(): the names stored in the map.
signals == DOMAIN M_sigs
signalsStatic == DOMAIN S_sigs

\* ---------------------------------------------------------------------------
\* Registry operations
\* ---------------------------------------------------------------------------

\* History of the connections of a name of a map.
LogSet(reg, name, log) == [connLog EXCEPT ![reg][name] = log]

signalNew(name, sig) ==
    LET o == signalStore(M_sigs, name, sig)
    IN  /\ M_sigs' = o.map
        /\ ret' = Ret("new", "M", o.res, o.calls)
        /\ connLog' = IF name \in DOMAIN M_sigs THEN connLog ELSE LogSet("M", name, <<>>)
        /\ UNCHANGED <<S_sigs, jvars>>

signalStaticNew(name, sig) ==
    LET o == signalStore(S_sigs, name, sig)
    IN  /\ S_sigs' = o.map
        /\ ret' = Ret("new", "S", o.res, o.calls)
        /\ connLog' = IF name \in DOMAIN S_sigs THEN connLog ELSE LogSet("S", name, <<>>)
        /\ UNCHANGED <<M_sigs, jvars>>

\* Mutant of signalDelete: the name is erased from the static map too.
signalDeleteBoth(name) ==
    LET o == signalErase(M_sigs, name)
    IN  /\ M_sigs' = o.map
        /\ S_sigs' = MapErase(S_sigs, name)
        /\ ret' = Ret("delete", "M", o.res, o.calls)
        /\ connLog' = LogSet("M", name, <<>>)
        /\ UNCHANGED jvars

signalDelete(name) ==
    LET o == signalErase(M_sigs, name)
    IN  /\ M_sigs' = o.map
        /\ ret' = Ret("delete", "M", o.res, o.calls)
        /\ connLog' = LogSet("M", name, <<>>)
        /\ UNCHANGED <<S_sigs, jvars>>

signalStaticDelete(name) ==
    LET o == signalErase(S_sigs, name)
    IN  /\ S_sigs' = o.map
        /\ ret' = Ret("delete", "S", o.res, o.calls)
        /\ connLog' = LogSet("S", name, <<>>)
        /\ UNCHANGED <<M_sigs, jvars>>

signalUntyped(name) ==
    LET o == signalAny(M_sigs, name)
    IN  /\ M_sigs' = o.map
        /\ ret' = Ret("any", "M", o.res, o.calls)
        /\ UNCHANGED <<S_sigs, connLog, jvars>>

signal(name, sig) ==
    LET o == signalGet(M_sigs, name, sig)
    IN  /\ M_sigs' = o.map
        /\ ret' = Ret("get", "M", o.res, o.calls)
        /\ UNCHANGED <<S_sigs, connLog, jvars>>

signalStatic(name, sig) ==
    LET o == signalGet(S_sigs, name, sig)
    IN  /\ S_sigs' = o.map
        /\ ret' = Ret("get", "S", o.res, o.calls)
        /\ UNCHANGED <<M_sigs, connLog, jvars>>

signalConnect(name, sig, slotname) ==
    LET o == signalConnectTo(M_sigs, name, sig, slotname, DEFAULT)
    IN  /\ o.res = OK => TotalSubs < MaxSubs
        /\ M_sigs' = o.map
        /\ ret' = Ret("connect", "M", o.res, o.calls)
        /\ connLog' = IF o.res = OK
                      THEN LogSet("M", name, Append(connLog["M"][name], slotname))
                      ELSE connLog
        /\ UNCHANGED <<S_sigs, jvars>>

signalStaticConnect(name, sig, slotname, flags) ==
    LET o == signalConnectTo(S_sigs, name, sig, slotname, flags)
    IN  /\ o.res = OK => TotalSubs < MaxSubs
        /\ S_sigs' = o.map
        /\ ret' = Ret("connect", "S", o.res, o.calls)
        /\ connLog' = IF o.res = OK
                      THEN LogSet("S", name, Append(connLog["S"][name], slotname))
                      ELSE connLog
        /\ UNCHANGED <<M_sigs, jvars>>

signalDisconnect(name, sig, slotname) ==
    LET o == signalDisconnectFrom(M_sigs, name, sig, slotname)
    IN  /\ M_sigs' = o.map
        /\ ret' = Ret("disconnect", "M", o.res, o.calls)
        /\ connLog' = IF o.res = OK
                      THEN LogSet("M", name, SelectSeq(connLog["M"][name], LAMBDA x : x # slotname))
                      ELSE connLog
        /\ UNCHANGED <<S_sigs, jvars>>

signalStaticDisconnect(name, sig, slotname, flags) ==
    LET o == signalStaticDisconnectFrom(S_sigs, name, sig, slotname, flags)
    IN  /\ S_sigs' = o.map
        /\ ret' = Ret("disconnect", "S", o.res, o.calls)
        /\ UNCHANGED <<M_sigs, connLog, jvars>>

signalPull(name, sig) ==
    LET o == signalCall(M_sigs, name, sig)
    IN  /\ M_sigs' = o.map
        /\ ret' = Ret("pull", "M", o.res, o.calls)
        /\ UNCHANGED <<S_sigs, connLog, jvars>>

signalStaticPull(name, sig) ==
    LET o == signalCall(S_sigs, name, sig)
    IN  /\ S_sigs' = o.map
        /\ ret' = Ret("pull", "S", o.res, o.calls)
        /\ UNCHANGED <<M_sigs, connLog, jvars>>

\* ---------------------------------------------------------------------------
\* JournalManagerBase
\* ---------------------------------------------------------------------------

FEELPP_DB_JOURNAL_VERSION == "0.1.0"

\* std::put_time of std::gmtime / std::localtime of t, format "%c %Z".
PutTimeGm(t) == "gm " \o ToString(t)
PutTimeLocal(t) == "local " \o ToString(t)

\* The four puts of the constructor, at time t.
\* Mutant of WriteHeader: the header is written into a new tree.
WriteHeaderFresh(tree, t) ==
    LET t1 == ptPut(EmptyTree, <<"database", "version">>, FEELPP_DB_JOURNAL_VERSION)
        t2 == ptPut(t1, <<"database", "time", "time_t">>, ToString(t))
        t3 == ptPut(t2, <<"database", "time", "gm">>, PutTimeGm(t))
    IN  ptPut(t3, <<"database", "time", "local">>, PutTimeLocal(t))

WriteHeader(tree, t) ==
    LET t1 == ptPut(tree, <<"database", "version">>, FEELPP_DB_JOURNAL_VERSION)
        t2 == ptPut(t1, <<"database", "time", "time_t">>, ToString(t))
        t3 == ptPut(t2, <<"database", "time", "gm">>, PutTimeGm(t))
    IN  ptPut(t3, <<"database", "time", "local">>, PutTimeLocal(t))

\* The paths the constructor writes.
HeaderPaths ==
    {<<"database", "version">>, <<"database", "time", "time_t">>,
     <<"database", "time", "gm">>, <<"database", "time", "local">>}

\* The constructor: the header is put into the global tree, then the signal
\* "journalManager" is created in the static map.
JournalManagerBase(t) ==
    LET o == signalStore(S_sigs, JournalName, SigJournal)
    IN  /\ t \in now..MaxTime
        /\ now' = t
        /\ M_journal_ptree' = WriteHeader(M_journal_ptree, t)
        /\ S_sigs' = o.map
        /\ ret' = [Ret("JournalManagerBase", "S", o.res, o.calls)
                      EXCEPT !.again = (ret.op = "JournalManagerBase")]
        /\ connLog' = IF JournalName \in DOMAIN S_sigs THEN connLog
                      ELSE LogSet("S", JournalName, <<>>)
        /\ firstTime' = IF firstTime = 0 /\ o.res = OK THEN t ELSE firstTime
        /\ UNCHANGED <<M_sigs, watcherFrag, svars, tvars>>

\* The trees the called slots return, in calling order.
SlotResults(calls) == [i \in 1..Len(calls) |-> Fragment(watcherFrag[calls[i]])]

\* Mutant of journalPullTree: the tree the signal returns is assigned to the
\* global tree.
journalPullAssign(tree, calls) == JournalMerge(SlotResults(calls))

\* journalPull: the tree the signal returns is merged into the global tree.
journalPullTree(tree, calls) == ptMerge(tree, JournalMerge(SlotResults(calls)))

journalPull ==
    LET o == signalCall(S_sigs, JournalName, SigJournal)
    IN  /\ S_sigs' = o.map
        /\ M_journal_ptree' = IF o.res = OK
                              THEN journalPullTree(M_journal_ptree, o.calls)
                              ELSE M_journal_ptree
        /\ ret' = [Ret("journalPull", "S", o.res, o.calls) EXCEPT !.again = (ret.op = "journalPull")]
        /\ UNCHANGED <<M_sigs, connLog, now, firstTime, watcherFrag, svars, tvars>>

\* The state of a watcher changes: its slot returns another tree from now on.
WatcherChange(slo, f) ==
    /\ f \in SlotFragments(slo)
    /\ f # watcherFrag[slo]
    /\ watcherFrag' = [watcherFrag EXCEPT ![slo] = f]
    /\ ret' = Ret("watcher", "-", OK, <<>>)
    /\ UNCHANGED <<M_sigs, S_sigs, connLog, M_journal_ptree, now, firstTime, svars, tvars>>

\* ---------------------------------------------------------------------------
\* JournalManagerBase: the file name, the MongoDB configuration, the saves
\* ---------------------------------------------------------------------------

\* JournalSetFilename, a member function: a journal manager exists.
JournalSetFilename(name) ==
    /\ firstTime # 0
    /\ M_journal_filename' = name
    /\ ret' = Ret("JournalSetFilename", "-", OK, <<>>)
    /\ UNCHANGED <<M_sigs, S_sigs, connLog, M_journal_ptree, now, firstTime, watcherFrag,
                   M_journal_db_config, journal_database, files, saved, tvars>>

\* A setter of the MongoDB configuration assigns config to M_journal_db_config.
ConfigSet(op, config) ==
    /\ M_journal_db_config' = config
    /\ ret' = Ret(op, "-", OK, <<>>)
    /\ UNCHANGED <<M_sigs, S_sigs, connLog, M_journal_ptree, now, firstTime, watcherFrag,
                   M_journal_filename, journal_database, files, saved, tvars>>

journalSetDBName(dbname) ==
    ConfigSet("journalSetDBName", [M_journal_db_config EXCEPT !.name = dbname])

journalSetDBHost(host) ==
    ConfigSet("journalSetDBHost", [M_journal_db_config EXCEPT !.host = host])

journalSetDBUsername(user) ==
    ConfigSet("journalSetDBUsername", [M_journal_db_config EXCEPT !.user = user])

journalSetDBPassword(password) ==
    ConfigSet("journalSetDBPassword", [M_journal_db_config EXCEPT !.password = password])

journalSetDBPort(port) ==
    ConfigSet("journalSetDBPort", [M_journal_db_config EXCEPT !.port = port])

journalSetDBAuthsrc(authsrc) ==
    ConfigSet("journalSetDBAuthsrc", [M_journal_db_config EXCEPT !.authsrc = authsrc])

\* journalSetDBCollection assigns its argument to the field name.
journalSetDBCollection(dbname) ==
    ConfigSet("journalSetDBCollection", [M_journal_db_config EXCEPT !.name = dbname])

journalDBConfig(mc) == ConfigSet("journalDBConfig", mc)

\* The file of a journal name.
JsonFile(name) == name \o ".json"

\* write_json: the JSON document holds the data of every leaf of the tree as a
\* string under the path of the leaf; the data of the inner nodes is not
\* written.
write_json(tree) == [p \in Leaves(tree) |-> tree[p]]

\* std::ifstream and rdbuf: the text of the file, nothing if the file cannot
\* be opened.
ReadFile(fs, file) == IF file \in DOMAIN fs THEN <<fs[file]>> ELSE <<>>

\* The file holds the document from now on.
WriteFile(fs, file, doc) ==
    [f \in DOMAIN fs \cup {file} |-> IF f = file THEN doc ELSE fs[f]]

json_parser_error == "json_parser_error"
bsoncxx_exception == "bsoncxx::exception"
mongocxx_exception == "mongocxx::exception"

\* The build has the MongoDB driver.
FEELPP_HAS_MONGOCXX == TRUE

SinkOutcome(fs, wrote, connected, inserted, res) ==
    [files |-> fs, wrote |-> wrote, connected |-> connected, inserted |-> inserted, res |-> res]

\* Mutant of journalJSONSave: the tree is written even when it is empty.
journalJSONSaveAlways(fs, tree, fname0, filename, writable) ==
    LET fname == IF filename # "journal" THEN filename ELSE fname0
    IN  IF ~writable THEN SinkOutcome(fs, {}, FALSE, <<>>, json_parser_error)
        ELSE SinkOutcome(WriteFile(fs, JsonFile(fname), write_json(tree)),
                         {JsonFile(fname)}, FALSE, <<>>, OK)

\* journalJSONSave( filename ): the file is named after M_journal_filename
\* (fname0) unless filename is not "journal"; the tree is written unless it is
\* empty; write_json throws when the file cannot be written (~writable).
journalJSONSave(fs, tree, fname0, filename, writable) ==
    LET fname == IF filename # "journal" THEN filename ELSE fname0
    IN  IF ptEmpty(tree) THEN SinkOutcome(fs, {}, FALSE, <<>>, OK)
        ELSE IF ~writable THEN SinkOutcome(fs, {}, FALSE, <<>>, json_parser_error)
        ELSE SinkOutcome(WriteFile(fs, JsonFile(fname), write_json(tree)),
                         {JsonFile(fname)}, FALSE, <<>>, OK)

\* What journalDBSave does once the database is enabled: the client, the
\* database and the collection are built from the configuration, the file
\* filename + ".json" is read, from_json throws on an empty text, insert_one
\* throws when the server cannot be reached (~reachable).
journalDBInsert(fs, config, filename, reachable) ==
    LET text == ReadFile(fs, JsonFile(filename))
    IN  IF text = <<>> THEN SinkOutcome(fs, {}, TRUE, <<>>, bsoncxx_exception)
        ELSE IF ~reachable THEN SinkOutcome(fs, {}, TRUE, <<>>, mongocxx_exception)
        ELSE SinkOutcome(fs, {}, TRUE,
                         <<[db |-> config.name, collection |-> config.collection,
                            document |-> text[1]]>>, OK)

\* Mutant of journalDBSave: the option is not read.
journalDBSaveAlways(fs, config, enable, filename, reachable) ==
    journalDBInsert(fs, config, filename, reachable)

\* journalDBSave( filename ): nothing is done unless the option
\* "journal.database" is set.
journalDBSave(fs, config, enable, filename, reachable) ==
    IF enable /\ FEELPP_HAS_MONGOCXX
    THEN journalDBInsert(fs, config, filename, reachable)
    ELSE SinkOutcome(fs, {}, FALSE, <<>>, OK)

\* journalSave( filename ): journalJSONSave, then journalDBSave; what the first
\* throws leaves the function, the second is not called then.
journalSaveSinks(fs, tree, fname0, config, enable, filename, writable, reachable) ==
    LET j == journalJSONSave(fs, tree, fname0, filename, writable)
        d == journalDBSave(j.files, config, enable, filename, reachable)
    IN  IF j.res # OK THEN j
        ELSE SinkOutcome(j.files, j.wrote, d.connected, d.inserted, d.res)

journalSave(filename, writable, reachable) ==
    LET o == journalSaveSinks(files, M_journal_ptree, M_journal_filename, M_journal_db_config,
                              journal_database, filename, writable, reachable)
    IN  /\ files' = o.files
        /\ saved' = [wrote |-> o.wrote, connected |-> o.connected, inserted |-> o.inserted]
        /\ ret' = Ret("journalSave", "-", o.res, <<>>)
        /\ UNCHANGED <<M_sigs, S_sigs, connLog, M_journal_ptree, now, firstTime, watcherFrag,
                       M_journal_filename, M_journal_db_config, journal_database, tvars>>


\* ---------------------------------------------------------------------------
\* Specifications
\* ---------------------------------------------------------------------------

\* The registry operations on one name of each map, and the construction of
\* journal managers, the clock standing still.
RegNames == {JournalName}

Next ==
    \/ \E name \in RegNames, sig \in Sigs : signalNew(name, sig)
    \/ \E name \in RegNames, sig \in Sigs : signalStaticNew(name, sig)
    \/ \E name \in RegNames : signalDelete(name)
    \/ \E name \in RegNames : signalStaticDelete(name)
    \/ \E name \in RegNames : signalUntyped(name)
    \/ \E name \in RegNames, sig \in Sigs : signal(name, sig)
    \/ \E name \in RegNames, sig \in Sigs : signalStatic(name, sig)
    \/ \E name \in RegNames, sig \in Sigs, slotname \in SlotNames :
           signalConnect(name, sig, slotname)
    \/ \E name \in RegNames, sig \in Sigs, slotname \in SlotNames, flags \in SigConnectFlags :
           signalStaticConnect(name, sig, slotname, flags)
    \/ \E name \in RegNames, sig \in Sigs, slotname \in SlotNames :
           signalDisconnect(name, sig, slotname)
    \/ \E name \in RegNames, sig \in Sigs, slotname \in SlotNames, flags \in SigConnectFlags :
           signalStaticDisconnect(name, sig, slotname, flags)
    \/ \E name \in RegNames, sig \in Sigs : signalPull(name, sig)
    \/ \E name \in RegNames, sig \in Sigs : signalStaticPull(name, sig)
    \/ \E t \in {now} : JournalManagerBase(t)

Spec == Init /\ [][Next]_vars

\* The registry operations on two names of each map, with one slot.
FrameNames == {"sig", "other"}
FrameSlots == {"a", "nope"}

NextFrame ==
    \/ \E name \in FrameNames, sig \in Sigs : signalNew(name, sig)
    \/ \E name \in FrameNames, sig \in Sigs : signalStaticNew(name, sig)
    \/ \E name \in FrameNames : signalDelete(name)
    \/ \E name \in FrameNames : signalStaticDelete(name)
    \/ \E name \in FrameNames, sig \in Sigs : signal(name, sig)
    \/ \E name \in FrameNames, sig \in Sigs : signalStatic(name, sig)
    \/ \E name \in FrameNames, sig \in Sigs, slotname \in FrameSlots :
           signalConnect(name, sig, slotname)
    \/ \E name \in FrameNames, sig \in Sigs, slotname \in FrameSlots :
           signalStaticConnect(name, sig, slotname, DEFAULT)

SpecFrame == Init /\ [][NextFrame]_vars

\* The journal manager and its watchers.
NextJournal ==
    \/ \E t \in 1..MaxTime : JournalManagerBase(t)
    \/ \E slotname \in SlotNames, flags \in SigConnectFlags :
           signalStaticConnect(JournalName, SigJournal, slotname, flags)
    \/ \E slo \in Callables, f \in {"mesh120", "mesh130", "solver", "none", "stamp"} :
           WatcherChange(slo, f)
    \/ journalPull
    \/ signalStaticDelete(JournalName)

SpecJournal == Init /\ [][NextJournal]_vars

\* The saves of the journal: the header is the whole of the tree, the file
\* name is set, the files are written and the database is fed, with the option
\* "journal.database" on or off.
FileNames == {"journal", "foo"}
DBNames == {"feelpp", "mydb"}

NextSave ==
    \/ \E t \in 1..MaxTime : JournalManagerBase(t)
    \/ \E name \in FileNames : JournalSetFilename(name)
    \/ \E dbname \in DBNames : journalSetDBName(dbname)
    \/ \E filename \in FileNames, writable \in BOOLEAN, reachable \in BOOLEAN :
           journalSave(filename, writable, reachable)

SpecSave == InitSave /\ [][NextSave]_vars

\* The setters of the MongoDB configuration.
ConfigValues == {"x", "y"}
Configs == {DefaultConfig, [f \in DOMAIN DefaultConfig |-> "z"]}

NextConfig ==
    \/ \E v \in ConfigValues : journalSetDBName(v)
    \/ \E v \in ConfigValues : journalSetDBHost(v)
    \/ \E v \in ConfigValues : journalSetDBUsername(v)
    \/ \E v \in ConfigValues : journalSetDBPassword(v)
    \/ \E v \in ConfigValues : journalSetDBPort(v)
    \/ \E v \in ConfigValues : journalSetDBAuthsrc(v)
    \/ \E v \in ConfigValues : journalSetDBCollection(v)
    \/ \E mc \in Configs : journalDBConfig(mc)

SpecConfig == Init /\ [][NextConfig]_vars

\* One watcher of the journal, connected and disconnected, the pulls and the
\* saves to the file of the journal.
NextGrow ==
    \/ \E t \in {now} : JournalManagerBase(t)
    \/ signalStaticConnect(JournalName, SigJournal, "a", DEFAULT)
    \/ signalStaticDisconnect(JournalName, SigJournal, "a", DEFAULT)
    \/ \E f \in {"mesh120", "mesh130"} : WatcherChange("a", f)
    \/ journalPull
    \/ \E writable \in BOOLEAN : journalSave("journal", writable, TRUE)
    \/ signalStaticDelete(JournalName)

SpecGrow == Init /\ [][NextGrow]_vars

\* ---------------------------------------------------------------------------
\* The static member functions called from several threads
\* ---------------------------------------------------------------------------

\* No member function takes a lock: a function a thread calls runs in steps,
\* and the steps of the other threads come in between. A step that ends an
\* access the step of another thread came into is a data race: it acts on
\* the map or the tree as it is now, or as the function found it.

Enter(th, section, local) ==
    /\ pc[th] = "idle"
    /\ pc' = [pc EXCEPT ![th] = section]
    /\ loc' = [loc EXCEPT ![th] = local]

Leave(th) ==
    /\ pc' = [pc EXCEPT ![th] = "idle"]
    /\ loc' = [loc EXCEPT ![th] = NoLocal]

\* signalStaticStore, entered: S_sigs.insert and S_sigs[name] are under way.
signalStaticStoreBegin(th) ==
    /\ Enter(th, "store", [NoLocal EXCEPT !.map = S_sigs])
    /\ UNCHANGED <<M_sigs, S_sigs, connLog, ret, M_journal_ptree, now, firstTime, watcherFrag,
                   svars>>

\* signalStaticStore, left.
signalStaticStoreEnd(th) ==
    /\ pc[th] = "store"
    /\ \E from \in {S_sigs, loc[th].map} :
          LET o == signalStore(from, JournalName, SigJournal)
          IN  /\ S_sigs' = o.map
              /\ ret' = Ret("new", "S", o.res, o.calls)
    /\ connLog' = LogSet("S", JournalName, S_sigs'[JournalName].subs)
    /\ Leave(th)
    /\ UNCHANGED <<M_sigs, M_journal_ptree, now, firstTime, watcherFrag, svars>>

\* signalStaticConnect, entered: the lookup S_sigs[signame] is under way.
signalStaticConnectBegin(th, slotname) ==
    /\ Enter(th, "connect", [NoLocal EXCEPT !.map = S_sigs, !.slotname = slotname])
    /\ UNCHANGED <<M_sigs, S_sigs, connLog, ret, M_journal_ptree, now, firstTime, watcherFrag,
                   svars>>

\* signalStaticConnect, left: the slot is connected to the signal found, by
\* boost::signals2, which locks the slot list of the signal.
signalStaticConnectEnd(th) ==
    LET o == signalConnectTo(S_sigs, JournalName, SigJournal, loc[th].slotname, DEFAULT)
    IN  /\ pc[th] = "connect"
        /\ o.res = OK => TotalSubs < MaxSubs
        /\ S_sigs' = o.map
        /\ ret' = Ret("connect", "S", o.res, o.calls)
        /\ connLog' = LogSet("S", JournalName, S_sigs'[JournalName].subs)
        /\ Leave(th)
        /\ UNCHANGED <<M_sigs, M_journal_ptree, now, firstTime, watcherFrag, svars>>

\* journalPull, entered: the lookup S_sigs[name] of signalStaticPull is under
\* way.
journalPullBegin(th) ==
    /\ Enter(th, "pull", [NoLocal EXCEPT !.map = S_sigs])
    /\ UNCHANGED <<M_sigs, S_sigs, connLog, ret, M_journal_ptree, now, firstTime, watcherFrag,
                   svars>>

\* journalPull: the signal is called and pt_merged holds what it returns.
journalPullCall(th) ==
    LET o == signalCall(S_sigs, JournalName, SigJournal)
    IN  /\ pc[th] = "pull"
        /\ S_sigs' = o.map
        /\ ret' = Ret("pull", "S", o.res, o.calls)
        /\ IF o.res = OK
           THEN /\ pc' = [pc EXCEPT ![th] = "pulled"]
                /\ loc' = [loc EXCEPT ![th] =
                              [NoLocal EXCEPT !.pt_merged = JournalMerge(SlotResults(o.calls))]]
           ELSE Leave(th)
        /\ UNCHANGED <<M_sigs, connLog, M_journal_ptree, now, firstTime, watcherFrag, svars>>

\* journalPull: ptMerge( M_journal_ptree, pt_merged ) is under way.
journalPullMerge(th) ==
    /\ pc[th] = "pulled"
    /\ pc' = [pc EXCEPT ![th] = "merging"]
    /\ loc' = [loc EXCEPT ![th].tree = M_journal_ptree]
    /\ UNCHANGED <<M_sigs, S_sigs, connLog, ret, M_journal_ptree, now, firstTime, watcherFrag,
                   svars>>

\* journalPull, left: the merge is done.
journalPullReturn(th) ==
    /\ pc[th] = "merging"
    /\ \E from \in {M_journal_ptree, loc[th].tree} :
          M_journal_ptree' = ptMerge(from, loc[th].pt_merged)
    /\ ret' = Ret("journalPull", "S", OK, <<>>)
    /\ Leave(th)
    /\ UNCHANGED <<M_sigs, S_sigs, connLog, now, firstTime, watcherFrag, svars>>

\* A journal manager is constructed while no thread is in a function, then
\* the threads create the signal, connect the slots a and b and pull.
NextThreads ==
    \/ \E t \in {now} : (\A th \in Threads : pc[th] = "idle") /\ JournalManagerBase(t)
    \/ \E th \in Threads : signalStaticStoreBegin(th)
    \/ \E th \in Threads : signalStaticStoreEnd(th)
    \/ \E th \in Threads, slotname \in {"a", "b"} : signalStaticConnectBegin(th, slotname)
    \/ \E th \in Threads : signalStaticConnectEnd(th)
    \/ \E th \in Threads : journalPullBegin(th)
    \/ \E th \in Threads : journalPullCall(th)
    \/ \E th \in Threads : journalPullMerge(th)
    \/ \E th \in Threads : journalPullReturn(th)

SpecThreads == Init /\ [][NextThreads]_vars

\* ---------------------------------------------------------------------------
\* Properties of the registry
\* ---------------------------------------------------------------------------

\* name denotes a signal in the map m (the map may also hold an empty any).
IsChannel(m, name) == name \in DOMAIN m /\ m[name] # EmptyAny

\* What the typed getter is claimed to answer: the signal when one of the
\* requested type is stored, the type error (boost::bad_any_cast) when the
\* stored signal has another type, and NameNotFound when no signal is stored.
ClaimedGet(m, name, sig) ==
    IF ~IsChannel(m, name) THEN NameNotFound
    ELSE IF m[name].sig # sig THEN bad_any_cast
    ELSE OK

\* C1: getChannel<Signature>(name), on the map of the object and on the static
\* map, returns the signal only when name denotes a stored signal of the
\* requested type; it fails with the type error when the stored signal has
\* another type and with NameNotFound, a different error, when name denotes no
\* signal.
C1_GetChannelErrors ==
    [][ret'.op = "get" => \A name \in Names, sig \in Sigs :
          /\ signal(name, sig) => ret'.res = ClaimedGet(M_sigs, name, sig)
          /\ signalStatic(name, sig) => ret'.res = ClaimedGet(S_sigs, name, sig)]_vars

\* C2: createChannel<S2>(name), when name denotes a signal of another type S1,
\* fails and does not overwrite: the map is unchanged, and getChannel<S1>(name)
\* still answers the signal, with the slots it had.
C2_ConflictKeepsChannel ==
    [][ret'.op = "new" => \A name \in Names, s2 \in Sigs :
          /\ (IsChannel(M_sigs, name) /\ M_sigs[name].sig # s2 /\ signalNew(name, s2))
                => /\ ret'.res = bad_any_cast
                   /\ M_sigs' = M_sigs
                   /\ signalGet(M_sigs', name, M_sigs[name].sig).res = OK
                   /\ M_sigs'[name].subs = M_sigs[name].subs
          /\ (IsChannel(S_sigs, name) /\ S_sigs[name].sig # s2 /\ signalStaticNew(name, s2))
                => /\ ret'.res = bad_any_cast
                   /\ S_sigs' = S_sigs
                   /\ signalGet(S_sigs', name, S_sigs[name].sig).res = OK
                   /\ S_sigs'[name].subs = S_sigs[name].subs]_vars

\* A conflicting creation has failed on a static signal that holds two slots.
C2_Witness ==
    /\ ret.op = "new" /\ ret.reg = "S" /\ ret.res = bad_any_cast
    /\ IsChannel(S_sigs, JournalName)
    /\ Len(S_sigs[JournalName].subs) = 2

\* C3: createChannel<S>(name), when name denotes a signal of the same type S,
\* succeeds and leaves the signal and its slot list as they were; so does the
\* construction of one more journal manager for the signal "journalManager".
C3_CreateIdempotent ==
    [][/\ ret'.op = "new" => \A name \in Names, s \in Sigs :
             /\ (IsChannel(M_sigs, name) /\ M_sigs[name].sig = s /\ signalNew(name, s))
                   => ret'.res = OK /\ M_sigs' = M_sigs
             /\ (IsChannel(S_sigs, name) /\ S_sigs[name].sig = s /\ signalStaticNew(name, s))
                   => ret'.res = OK /\ S_sigs' = S_sigs
       /\ ret'.op = "JournalManagerBase" => \A t \in 1..MaxTime :
             (IsChannel(S_sigs, JournalName) /\ S_sigs[JournalName].sig = SigJournal
                 /\ JournalManagerBase(t))
                   => ret'.res = OK /\ S_sigs' = S_sigs]_vars

\* One more journal manager has been constructed while the signal
\* "journalManager" held two slots, and it still holds them.
C3_Witness ==
    /\ ret.op = "JournalManagerBase" /\ ret.res = OK /\ ret.again
    /\ IsChannel(S_sigs, JournalName)
    /\ S_sigs[JournalName].subs = <<"b", "a">>

\* C4: invoke(name) calls the connected slots one after the other in the order
\* they were connected in, each once per connection: the calls are the history
\* of the connections of the signal.
C4_InvokeInConnectionOrder ==
    [][ret'.op = "pull" => \A name \in Names, sig \in Sigs :
          /\ (signalPull(name, sig) /\ ret'.res = OK) => ret'.calls = connLog["M"][name]
          /\ (signalStaticPull(name, sig) /\ ret'.res = OK) => ret'.calls = connLog["S"][name]]_vars

\* A signal whose slot b was connected before its slot a has been called.
C4_Witness ==
    /\ ret.op = "pull" /\ ret.res = OK
    /\ ret.calls = <<"b", "a">>

\* A slot list without the connections of slot slo, the rest in order.
Without(subs, slo) == SelectSeq(subs, LAMBDA x : x # slo)

\* C5: after a successful disconnect(name, slotProvider, slotName, scope), on
\* the map of the object and on the static map and for both slot scopes, an
\* invoke(name) no longer calls the slot, and calls the other slots in the
\* order they had.
C5_DisconnectRemoves ==
    [][ret'.op = "disconnect" => \A name \in Names, sig \in Sigs, slotname \in SlotNames :
          /\ (signalDisconnect(name, sig, slotname) /\ ret'.res = OK)
                => signalCall(M_sigs', name, sig).calls = Without(M_sigs[name].subs, slotname)
          /\ \A flags \in SigConnectFlags :
                (signalStaticDisconnect(name, sig, slotname, flags) /\ ret'.res = OK)
                   => signalCall(S_sigs', name, sig).calls
                         = Without(S_sigs[name].subs, slotname)]_vars

\* No typed getter answers a signal for name.
AllGetsFail(m, name) == \A sig \in Sigs : signalGet(m, name, sig).res = bad_any_cast

\* The maps m1 and m2 hold the same thing, or both nothing, under name.
SameEntry(m1, m2, name) ==
    /\ name \in DOMAIN m1 <=> name \in DOMAIN m2
    /\ name \in DOMAIN m1 => m1[name] = m2[name]

C7_FailedConnectKeepsSlots ==
    [][ret'.op = "connect" => \A name \in Names, sig \in Sigs, slotname \in SlotNames :
          /\ (~SlotResolves(slotname, DEFAULT) /\ IsChannel(M_sigs, name)
                 /\ M_sigs[name].sig = sig /\ signalConnect(name, sig, slotname))
                => /\ ret'.res = NameNotFound
                   /\ signalCall(M_sigs', name, sig) = signalCall(M_sigs, name, sig)
          /\ \A flags \in SigConnectFlags :
                (~SlotResolves(slotname, flags) /\ IsChannel(S_sigs, name)
                    /\ S_sigs[name].sig = sig /\ signalStaticConnect(name, sig, slotname, flags))
                   => /\ ret'.res = NameNotFound
                      /\ signalCall(S_sigs', name, sig) = signalCall(S_sigs, name, sig)]_vars

\* A connection to a static signal that holds two slots has failed on the
\* slot name.
C7_Witness ==
    /\ ret.op = "connect" /\ ret.reg = "S" /\ ret.res = NameNotFound
    /\ IsChannel(S_sigs, JournalName)
    /\ S_sigs[JournalName].subs = <<"A", "a">>

\* ---------------------------------------------------------------------------
\* Properties of the journal
\* ---------------------------------------------------------------------------

\* The header a construction at time t writes.
Header(t) == WriteHeader(EmptyTree, t)

\* The called slots return trees whose leaves differ from one another's and
\* from the header's.
DistinctKeyed(calls) ==
    LET r == SlotResults(calls)
    IN  /\ \A i, j \in 1..Len(r) : i # j => Leaves(r[i]) \cap Leaves(r[j]) = {}
        /\ \A i \in 1..Len(r) : Leaves(r[i]) \cap DOMAIN Header(1) = {}

\* C8: when the slots connected to "journalManager" return trees with keys
\* distinct from one another's and from the header's, one pull() answers a
\* tree that holds every leaf of every returned tree with its value, and the
\* header as it was written.
C8_PullCollectsAll ==
    [][(journalPull /\ ret'.res = OK /\ DistinctKeyed(ret'.calls))
          => /\ \A i \in 1..Len(ret'.calls) :
                   LET r == SlotResults(ret'.calls)[i]
                   IN  \A p \in Leaves(r) :
                          p \in DOMAIN M_journal_ptree' /\ M_journal_ptree'[p] = r[p]
             /\ \A p \in HeaderPaths :
                   /\ p \in DOMAIN M_journal_ptree /\ p \in DOMAIN M_journal_ptree'
                   /\ M_journal_ptree'[p] = M_journal_ptree[p]]_vars

\* The slots a and b returned {mesh.nelements: 120} and {solver.iterations: 42}
\* to one pull, and the tree is the header and both.
C8_Witness ==
    /\ ret.op = "journalPull" /\ ret.res = OK
    /\ ret.calls = <<"a", "b">>
    /\ firstTime # 0
    /\ M_journal_ptree
          = ptPut(ptPut(Header(firstTime), <<"mesh", "nelements">>, "120"),
                  <<"solver", "iterations">>, "42")

\* C9: once a journal manager has been constructed, the header of the tree is
\* the header that construction wrote, whatever is pulled, connected or
\* constructed afterwards.
C9_HeaderImmutable ==
    firstTime # 0 =>
        \A p \in HeaderPaths :
            p \in DOMAIN M_journal_ptree /\ M_journal_ptree[p] = Header(firstTime)[p]

\* C10: a pull() that follows a pull() with nothing in between, the slots
\* returning what they returned, answers the tree the first one answered.
C10_PullIdempotent ==
    [][(journalPull /\ ret.op = "journalPull" /\ ret.res = OK)
          => /\ ret'.res = OK
             /\ ret'.calls = ret.calls
             /\ M_journal_ptree' = M_journal_ptree]_vars

\* A second pull has followed a first one, with two slots connected.
C10_Witness ==
    /\ ret.op = "journalPull" /\ ret.res = OK /\ ret.again
    /\ Len(ret.calls) = 2
    /\ <<"mesh", "nelements">> \in DOMAIN M_journal_ptree

\* ---------------------------------------------------------------------------
\* Properties of the saves and of the MongoDB configuration
\* ---------------------------------------------------------------------------

\* C11: with the database enabled, every save() attempts the write to the
\* database, whether the file was written, could not be written or was
\* skipped: after each journalSave a MongoDB client has been built.
C11_EverySinkAttempted ==
    (ret.op = "journalSave" /\ journal_database) => saved.connected

\* C12: each save() that succeeds with the database enabled inserts exactly
\* one document, and that document is the JSON form of the tree as it is at
\* the time of the save, whatever name is passed to save() and whatever file
\* name was set.
C12_DocumentIsSnapshot ==
    (ret.op = "journalSave" /\ ret.res = OK /\ journal_database)
        => /\ Len(saved.inserted) = 1
           /\ saved.inserted[1].document = write_json(M_journal_ptree)

\* C13: with the database disabled, save() builds no MongoDB client and
\* inserts no document, whatever the MongoDB configuration holds; it ends
\* normally or with the error of the file write.
C13_DisabledWritesFileOnly ==
    (ret.op = "journalSave" /\ ~journal_database)
        => /\ ~saved.connected
           /\ saved.inserted = <<>>
           /\ ret.res \in {OK, json_parser_error}

\* The database is disabled, the database name was set, and a save has written
\* the file foo.json.
C13_Witness ==
    /\ ret.op = "journalSave" /\ ret.res = OK
    /\ ~journal_database
    /\ M_journal_db_config.name = "mydb"
    /\ saved.wrote = {"foo.json"}

\* C14: every setter of the MongoDB configuration changes its own field to its
\* argument and no other field; the setter of the collection sets the field
\* collection and leaves the field name as journalSetDBName set it.
C14_SetterOwnField ==
    [][\A v \in ConfigValues :
          /\ journalSetDBName(v)
                => M_journal_db_config' = [M_journal_db_config EXCEPT !.name = v]
          /\ journalSetDBHost(v)
                => M_journal_db_config' = [M_journal_db_config EXCEPT !.host = v]
          /\ journalSetDBUsername(v)
                => M_journal_db_config' = [M_journal_db_config EXCEPT !.user = v]
          /\ journalSetDBPassword(v)
                => M_journal_db_config' = [M_journal_db_config EXCEPT !.password = v]
          /\ journalSetDBPort(v)
                => M_journal_db_config' = [M_journal_db_config EXCEPT !.port = v]
          /\ journalSetDBAuthsrc(v)
                => M_journal_db_config' = [M_journal_db_config EXCEPT !.authsrc = v]
          /\ journalSetDBCollection(v)
                => M_journal_db_config' = [M_journal_db_config EXCEPT !.collection = v]]_vars

\* The signal "journalManager" is stored in the static map with the type the
\* journal manager gave it.
JournalReady == IsChannel(S_sigs, JournalName) /\ S_sigs[JournalName].sig = SigJournal

\* C15: a pull() while "journalManager" has no slot connected succeeds, calls
\* nothing and leaves the tree as it was, each time it is done.
C15_PullNoWatchers ==
    [][(ret'.op = "journalPull" /\ JournalReady /\ S_sigs[JournalName].subs = <<>>
            /\ journalPull)
          => /\ ret'.res = OK
             /\ ret'.calls = <<>>
             /\ M_journal_ptree' = M_journal_ptree]_vars

\* A second pull with no slot connected has followed a first one, and the tree
\* is the header.
C15_Witness ==
    /\ ret.op = "journalPull" /\ ret.res = OK /\ ret.again
    /\ ret.calls = <<>>
    /\ firstTime # 0
    /\ M_journal_ptree = Header(firstTime)

\* The value the last of the trees r that holds the leaf p gives it.
LastValue(r, p) ==
    LET i == CHOOSE k \in 1..Len(r) :
                 /\ p \in Leaves(r[k])
                 /\ \A j \in 1..Len(r) : j > k => p \notin Leaves(r[j])
    IN  r[i][p]

\* C16: a pull() folds the trees of the slots in the order the slots were
\* connected: a leaf several of them hold gets the value of the slot connected
\* last, every node of every returned tree is in the result, and every node
\* of the tree before the pull stays, with its data when no slot returned it
\* as a leaf.
C16_LastWriterWins ==
    [][(ret'.op = "journalPull" /\ journalPull /\ ret'.res = OK)
          => LET r == SlotResults(connLog["S"][JournalName])
                 given == UNION {Leaves(r[i]) : i \in 1..Len(r)}
             IN  /\ \A p \in given :
                        p \in DOMAIN M_journal_ptree' /\ M_journal_ptree'[p] = LastValue(r, p)
                 /\ \A i \in 1..Len(r) : DOMAIN r[i] \subseteq DOMAIN M_journal_ptree'
                 /\ \A p \in DOMAIN M_journal_ptree :
                        /\ p \in DOMAIN M_journal_ptree'
                        /\ p \notin given => M_journal_ptree'[p] = M_journal_ptree[p]]_vars

\* The slot b, connected first, returned {mesh.nelements: 130} and the slot a,
\* connected after it, {mesh.nelements: 120}: the tree holds 120, and the
\* header.
C16_Witness ==
    /\ ret.op = "journalPull" /\ ret.res = OK
    /\ ret.calls = <<"b", "a">>
    /\ connLog["S"][JournalName] = <<"b", "a">>
    /\ watcherFrag["b"] = "mesh130" /\ watcherFrag["a"] = "mesh120"
    /\ M_journal_ptree[<<"mesh", "nelements">>] = "120"
    /\ HeaderPaths \subseteq DOMAIN M_journal_ptree

\* C17: save() writes no file while the tree is empty; once the tree is not
\* empty it writes the JSON form of the tree to the file of the name passed,
\* or of the file name set when the name passed is "journal", when that file
\* can be written, and to no other file.
C17_EmptyNotWritten ==
    [][ret'.op = "journalSave"
          => \A filename \in FileNames, writable \in BOOLEAN, reachable \in BOOLEAN :
                journalSave(filename, writable, reachable)
                   => LET target == JsonFile(IF filename # "journal" THEN filename
                                             ELSE M_journal_filename)
                      IN  IF ptEmpty(M_journal_ptree)
                          THEN files' = files /\ saved'.wrote = {}
                          ELSE writable
                                  => /\ saved'.wrote = {target}
                                     /\ files' = WriteFile(files, target,
                                                           write_json(M_journal_ptree))]_vars

\* A save was done before any journal manager was constructed: the tree is
\* empty and there is no file.
C17_Witness ==
    /\ ret.op = "journalSave"
    /\ ptEmpty(M_journal_ptree)
    /\ saved.wrote = {}
    /\ files = NoFiles

\* ---------------------------------------------------------------------------
\* Properties of failed lookups and of the life of the journal
\* ---------------------------------------------------------------------------

\* C18: a getChannel, connect, disconnect or invoke on a name that denotes no
\* signal leaves the map as it was: the names the map lists are the same, and
\* a createChannel<S>(name) done next succeeds, for every S.
C18_FailedLookupKeepsRegistry ==
    [][ret'.op \in {"get", "connect", "disconnect", "pull"}
          => \A name \in RegNames :
                /\ (ret'.reg = "M" /\ ~IsChannel(M_sigs, name))
                      => /\ DOMAIN M_sigs' = DOMAIN M_sigs
                         /\ \A sig \in Sigs : signalStore(M_sigs', name, sig).res = OK
                /\ (ret'.reg = "S" /\ ~IsChannel(S_sigs, name))
                      => /\ DOMAIN S_sigs' = DOMAIN S_sigs
                         /\ \A sig \in Sigs : signalStore(S_sigs', name, sig).res = OK]_vars

\* C19, as claimed: once a journal manager has been constructed, the signal
\* "journalManager" is stored in the static map, with its type, in every state
\* the public operations reach.
C19_StaysReady == firstTime # 0 => JournalReady

\* C19, amended: a construction that succeeds stores the signal
\* "journalManager", and the signal stays stored, so that pull() finds it,
\* through every operation but signalStaticDelete( "journalManager" ).
C19_ReadyUntilDeleted ==
    [][/\ (ret'.op = "JournalManagerBase" /\ ret'.res = OK) => JournalReady'
       /\ (JournalReady /\ ~signalStaticDelete(JournalName))
             => /\ JournalReady'
                /\ ret'.op = "journalPull" => ret'.res = OK]_vars

\* After saves and a disconnect, a pull has found the signal and called the
\* slot a.
C19_Witness ==
    /\ firstTime # 0 /\ JournalReady
    /\ ret.op = "journalPull" /\ ret.res = OK
    /\ ret.calls = <<"a">>
    /\ files # NoFiles

\* C20: the tree only grows: every node the tree holds is in the tree after
\* every construction, pull, save, connect, disconnect and delete.
C20_TreeGrows ==
    [][DOMAIN M_journal_ptree \subseteq DOMAIN M_journal_ptree']_vars

\* The tree holds what a pull merged in and has been saved, and a journal
\* manager has been constructed after that.
C20_Witness ==
    /\ ret.op = "JournalManagerBase" /\ ret.res = OK
    /\ <<"mesh", "nelements">> \in DOMAIN M_journal_ptree
    /\ "journal.json" \in DOMAIN files
    /\ <<"mesh", "nelements">> \in DOMAIN files["journal.json"]

\* ---------------------------------------------------------------------------
\* Properties of the two maps together
\* ---------------------------------------------------------------------------

MapSections == {"store", "connect", "pull"}

\* Two threads are in an access to the static map, or in a merge into the
\* global tree, at the same time.
Overlap ==
    \E th1, th2 \in Threads :
        /\ th1 # th2
        /\ \/ pc[th1] \in MapSections /\ pc[th2] \in MapSections
           \/ pc[th1] = "merging" /\ pc[th2] = "merging"

\* C22: when the threads connect watchers and pull, the accesses to the static
\* map are serialized and so are the merges into the global tree: no two of
\* them overlap, and every merge that ends has merged what the signal returned
\* into the tree as the merges before it left it, as the pulls done one after
\* the other would.
C22_Serialized ==
    [][/\ ~Overlap'
       /\ \A th \in Threads :
             journalPullReturn(th)
                => M_journal_ptree' = ptMerge(M_journal_ptree, loc[th].pt_merged)]_vars

====
